---- MODULE Spec2Model ----
(***************************************************************************)
(* Model of 01_data_preparation/src/data_loader.py:                        *)
(*   crear_indice_fecha     (Year, Month -> datetime index)                *)
(*   imputar_datos_consumo  (zero-fill before the first valid observation, *)
(*                           linear interpolation from it on)              *)
(* together with the pandas operations the two functions call              *)
(* (first_valid_index, label slicing with .loc, fillna, interpolate,       *)
(* to_datetime on a Year/Month/Day frame, drop, set_index).                *)
(*                                                                         *)
(* A cell is a rational [n, d]; d = 0 marks a missing value (NaN).         *)
(* float64 arithmetic is modelled exactly (no rounding).                   *)
(* A table is [nombre_indice, indice, cols]: the name of its index, the    *)
(* sequence of row labels and a function from column names to sequences    *)
(* of cells. A row label is a Timestamp [year, month, day] or a            *)
(* RangeIndex position [pos].                                              *)
(***************************************************************************)
EXTENDS Integers, Sequences, FiniteSets, TLC

VARIABLES
    df,                    \* imputar_datos_consumo: the input table
    columnas_consumo,      \* imputar_datos_consumo: the list of target columns
    df_imputado,           \* the working copy (line 103)
    primer_indice_valido,  \* per column: the label found at line 108
    pc,                    \* per column: position in the loop body
    resultado,             \* what the call returned or raised
    df_fecha,              \* crear_indice_fecha: the input table
    una_vez,               \* crear_indice_fecha(df_fecha)
    dos_veces,             \* crear_indice_fecha(crear_indice_fecha(df_fecha))
    paso                   \* position of the date-index run

vars == <<df, columnas_consumo, df_imputado, primer_indice_valido, pc, resultado,
          df_fecha, una_vez, dos_veces, paso>>

varsImputar == <<df, columnas_consumo, df_imputado, primer_indice_valido, pc, resultado>>
varsFecha == <<df_fecha, una_vez, dos_veces, paso>>

---------------------------------------------------------------------------
(* Bounds and input alphabets *)

MaxLen == 3      \* rows of the tables given to imputar_datos_consumo
MaxFilas == 2    \* rows of the tables given to crear_indice_fecha

ValoresX == {5, 10}          \* observed values of column X
ValoresY == {4}              \* observed values of column Y
MesesClave == {1, 2}         \* months of the datetime labels of the imputed tables
Years == {2019, 2020}        \* Year cells
Months == {0, 3, 11, 13, 101}  \* Month cells, valid and invalid

---------------------------------------------------------------------------
(* Cells *)

NaN == [n |-> 0, d |-> 0]
Num(k) == [n |-> k, d |-> 1]
Cero == Num(0)
isna(v) == v.d = 0
notna(v) == v.d # 0

Abs(k) == IF k < 0 THEN -k ELSE k

RECURSIVE GCD(_, _)
GCD(a, b) == IF b = 0 THEN a ELSE GCD(b, a % b)

\* the rational nn/dd (dd > 0) in lowest terms
Rat(nn, dd) ==
    LET g == GCD(Abs(nn), dd)
    IN  [n |-> nn \div g, d |-> dd \div g]

Min(S) == CHOOSE x \in S : \A y \in S : x <= y
Max(S) == CHOOSE x \in S : \A y \in S : x >= y

---------------------------------------------------------------------------
(* Row labels *)

Timestamp(y, m, dd) == [year |-> y, month |-> m, day |-> dd]
RangeLabel(i) == [pos |-> i]
None == [none |-> TRUE]

\* position of a label in the order of its index type
Orden(l) == IF "pos" \in DOMAIN l THEN l.pos
            ELSE l.year * 10000 + l.month * 100 + l.day

RangeIndex(n) == [i \in 1..n |-> RangeLabel(i - 1)]

Ascendente(indice) ==
    \A i, j \in DOMAIN indice : i < j => Orden(indice[i]) <= Orden(indice[j])
AscendenteDistinto(indice) ==
    \A i, j \in DOMAIN indice : i < j => Orden(indice[i]) < Orden(indice[j])

---------------------------------------------------------------------------
(* pandas: Series.first_valid_index, Index.get_slice_bound, fillna,        *)
(* interpolate(method='linear', limit_direction='both')                    *)

\* Series.first_valid_index(): label of the first non-NaN row, else None
first_valid_index(indice, serie) ==
    LET validos == {i \in DOMAIN serie : notna(serie[i])}
    IN  IF validos = {} THEN None ELSE indice[Min(validos)]

\* Index.get_loc(label): the positions that carry the label
get_loc(indice, label) == {i \in DOMAIN indice : indice[i] = label}

\* lib.maybe_booleans_to_slice: the positions form one contiguous run
EsRebanada(P) == P # {} /\ P = Min(P)..Max(P)

\* Index.get_slice_bound(label, side): 0 stands for
\* KeyError("Cannot get left/right slice bound for non-unique label")
get_slice_bound(indice, label, side) ==
    LET P == get_loc(indice, label)
    IN  IF ~EsRebanada(P) THEN 0
        ELSE IF side = "left" THEN Min(P) ELSE Max(P)

\* rows selected by .loc[:label] (both ends inclusive); {0} stands for KeyError
loc_hasta(indice, label) ==
    LET fin == get_slice_bound(indice, label, "right")
    IN  IF fin = 0 THEN {0} ELSE 1..fin

\* rows selected by .loc[label:]; {0} stands for KeyError
loc_desde(indice, label) ==
    LET ini == get_slice_bound(indice, label, "left")
    IN  IF ini = 0 THEN {0} ELSE ini..Len(indice)

\* Series.fillna(0) on the rows of `filas`, assigned back to those rows
fillna_cero(serie, filas) ==
    [i \in DOMAIN serie |-> IF i \in filas /\ isna(serie[i]) THEN Cero ELSE serie[i]]

\* np.interp between the valid neighbours (i, a) and (j, b), at row k
Lineal(i, a, j, b, k) ==
    Rat(a.n * b.d * (j - i) + (b.n * a.d - a.n * b.d) * (k - i), a.d * b.d * (j - i))

\* value of row k of Series.interpolate(method='linear', limit_direction='both')
\* taken over the rows `filas`: rows are equally spaced, a gap between two valid
\* rows is linear, a gap at either end takes the nearest valid value, and a
\* series with no valid row is left as it is
InterpolarFila(serie, filas, k) ==
    LET antes == {i \in filas : i < k /\ notna(serie[i])}
        despues == {j \in filas : j > k /\ notna(serie[j])}
    IN  IF notna(serie[k]) THEN serie[k]
        ELSE IF antes # {} /\ despues # {}
             THEN Lineal(Max(antes), serie[Max(antes)], Min(despues), serie[Min(despues)], k)
        ELSE IF antes # {} THEN serie[Max(antes)]
        ELSE IF despues # {} THEN serie[Min(despues)]
        ELSE serie[k]

\* limit_area='inside' in place of limit_direction='both': end gaps stay missing
interpolate_dentro(serie, filas) ==
    [k \in DOMAIN serie |->
        LET antes == {i \in filas : i < k /\ notna(serie[i])}
            despues == {j \in filas : j > k /\ notna(serie[j])}
        IN  IF k \in filas /\ isna(serie[k]) /\ antes # {} /\ despues # {}
            THEN InterpolarFila(serie, filas, k)
            ELSE serie[k]]

interpolate(serie, filas) ==
    [k \in DOMAIN serie |-> IF k \in filas THEN InterpolarFila(serie, filas, k) ELSE serie[k]]

---------------------------------------------------------------------------
(* imputar_datos_consumo, lines 80-123 *)

Ok(t) == [kind |-> "table", tabla |-> t]
KeyError == [kind |-> "KeyError"]
ValueError == [kind |-> "ValueError"]
Running == [kind |-> "running"]

\* fillna(0) over whole rows: the column selector of .loc left out
rellenar_antes_todas(tabla, columna, label) ==
    LET filas == loc_hasta(tabla.indice, label)
    IN  IF filas = {0} THEN KeyError
        ELSE Ok([tabla EXCEPT !.cols = [k \in DOMAIN @ |-> fillna_cero(@[k], filas)]])

\* line 113: df_imputado.loc[:p, columna] = df_imputado.loc[:p, columna].fillna(0)
rellenar_antes(tabla, columna, label) ==
    LET filas == loc_hasta(tabla.indice, label)
    IN  IF filas = {0} THEN KeyError
        ELSE Ok([tabla EXCEPT !.cols[columna] = fillna_cero(@, filas)])

\* the interpolation with limit_area='inside'
interpolar_desde_dentro(tabla, columna, label) ==
    LET filas == loc_desde(tabla.indice, label)
    IN  IF filas = {0} THEN KeyError
        ELSE Ok([tabla EXCEPT !.cols[columna] = interpolate_dentro(@, filas)])

\* lines 116-118: df_imputado.loc[p:, columna] = df_imputado.loc[p:, columna].interpolate(...)
interpolar_desde(tabla, columna, label) ==
    LET filas == loc_desde(tabla.indice, label)
    IN  IF filas = {0} THEN KeyError
        ELSE Ok([tabla EXCEPT !.cols[columna] = interpolate(@, filas)])

\* fillna(0) on the whole frame: df_imputado = df_imputado.fillna(0)
rellenar_todo_todas(tabla, columna) ==
    [tabla EXCEPT !.cols = [k \in DOMAIN @ |-> fillna_cero(@[k], DOMAIN @[k])]]

\* the else branch without its fillna
rellenar_todo_nada(tabla, columna) == tabla

\* line 121: df_imputado[columna] = df_imputado[columna].fillna(0)
rellenar_todo(tabla, columna) ==
    [tabla EXCEPT !.cols[columna] = fillna_cero(@, DOMAIN @)]

\* lines 108-121: the body of the loop for one column
imputar_columna(tabla, columna) ==
    LET p == first_valid_index(tabla.indice, tabla.cols[columna])
    IN  IF p # None
        THEN LET a == rellenar_antes(tabla, columna, p)
             IN  IF a.kind # "table" THEN a ELSE interpolar_desde(a.tabla, columna, p)
        ELSE Ok(rellenar_todo(tabla, columna))

RECURSIVE bucle(_, _, _)
\* lines 106-121: the loop over columnas, from position i on
bucle(r, columnas, i) ==
    IF r.kind # "table" \/ i > Len(columnas) THEN r
    ELSE bucle(imputar_columna(r.tabla, columnas[i]), columnas, i + 1)

\* lines 103-123: the whole call, columns in list order
imputar_datos_consumo(tabla, columnas) == bucle(Ok(tabla), columnas, 1)

Rango(seq) == {seq[i] : i \in DOMAIN seq}

Indices(n) ==
    {[nombre |-> "", valores |-> RangeIndex(n)]} \cup
    {[nombre |-> "datetime", valores |-> [i \in 1..n |-> Timestamp(2020, m[i], 1)]] :
        m \in [1..n -> MesesClave]}

Celdas(V) == {NaN} \cup {Num(v) : v \in V}

TablasConsumo ==
    UNION {
        {[nombre_indice |-> ix.nombre, indice |-> ix.valores, cols |-> [X |-> x, Y |-> y]] :
            ix \in Indices(n), x \in [1..n -> Celdas(ValoresX)], y \in [1..n -> Celdas(ValoresY)]}
        : n \in 0..MaxLen}

ListasObjetivo == {<<>>, <<"X">>, <<"Y">>, <<"X", "Y">>, <<"Y", "X">>}

SinFecha == [nombre_indice |-> "", indice |-> <<>>, cols |-> <<>>]

InitImputar ==
    /\ df \in TablasConsumo
    /\ columnas_consumo \in ListasObjetivo
    /\ df_imputado = df
    /\ primer_indice_valido = [c \in DOMAIN df.cols |-> None]
    /\ pc = [c \in DOMAIN df.cols |->
                IF c \in Rango(columnas_consumo) THEN "UNSCANNED" ELSE "NOT_TARGET"]
    /\ resultado = Running

\* line 108
BuscarAncla(c) ==
    /\ resultado = Running
    /\ pc[c] = "UNSCANNED"
    /\ LET p == first_valid_index(df_imputado.indice, df_imputado.cols[c])
       IN  /\ primer_indice_valido' = [primer_indice_valido EXCEPT ![c] = p]
           /\ pc' = [pc EXCEPT ![c] = IF p # None THEN "ANCHORED" ELSE "EMPTY"]
    /\ UNCHANGED <<df, columnas_consumo, df_imputado, resultado>>
    /\ UNCHANGED varsFecha

\* line 113; a KeyError from the label slice ends the call
RellenarAntes(c) ==
    /\ resultado = Running
    /\ pc[c] = "ANCHORED"
    /\ LET a == rellenar_antes(df_imputado, c, primer_indice_valido[c])
       IN  IF a.kind = "table"
           THEN /\ df_imputado' = a.tabla
                /\ pc' = [pc EXCEPT ![c] = "PRE_FILLED"]
                /\ UNCHANGED resultado
           ELSE /\ resultado' = a
                /\ UNCHANGED <<df_imputado, pc>>
    /\ UNCHANGED <<df, columnas_consumo, primer_indice_valido>>
    /\ UNCHANGED varsFecha

\* lines 116-118
Interpolar(c) ==
    /\ resultado = Running
    /\ pc[c] = "PRE_FILLED"
    /\ LET b == interpolar_desde(df_imputado, c, primer_indice_valido[c])
       IN  IF b.kind = "table"
           THEN /\ df_imputado' = b.tabla
                /\ pc' = [pc EXCEPT ![c] = "INTERPOLATED"]
                /\ UNCHANGED resultado
           ELSE /\ resultado' = b
                /\ UNCHANGED <<df_imputado, pc>>
    /\ UNCHANGED <<df, columnas_consumo, primer_indice_valido>>
    /\ UNCHANGED varsFecha

\* line 121
RellenarTodo(c) ==
    /\ resultado = Running
    /\ pc[c] = "EMPTY"
    /\ df_imputado' = rellenar_todo(df_imputado, c)
    /\ pc' = [pc EXCEPT ![c] = "ALL_ZERO"]
    /\ UNCHANGED <<df, columnas_consumo, primer_indice_valido, resultado>>
    /\ UNCHANGED varsFecha

\* line 123
Retornar ==
    /\ resultado = Running
    /\ \A c \in DOMAIN pc : pc[c] \in {"NOT_TARGET", "INTERPOLATED", "ALL_ZERO"}
    /\ resultado' = Ok(df_imputado)
    /\ UNCHANGED <<df, columnas_consumo, df_imputado, primer_indice_valido, pc>>
    /\ UNCHANGED varsFecha

\* The loop of line 106 runs the columns in list order; the steps of different
\* columns are let to interleave here, which includes that order.
Init ==
    /\ InitImputar
    /\ df_fecha = SinFecha
    /\ una_vez = Running
    /\ dos_veces = Running
    /\ paso = "idle"

Next ==
    \/ \E c \in Rango(columnas_consumo) : BuscarAncla(c)
    \/ \E c \in Rango(columnas_consumo) : RellenarAntes(c)
    \/ \E c \in Rango(columnas_consumo) : Interpolar(c)
    \/ \E c \in Rango(columnas_consumo) : RellenarTodo(c)
    \/ Retornar

Spec == Init /\ [][Next]_vars

---------------------------------------------------------------------------
(* Properties of imputar_datos_consumo *)

Terminado == resultado.kind # "running"
Retorno == resultado.kind = "table"
Objetivos == Rango(columnas_consumo)
Filas == DOMAIN df.indice
Validas(c) == {i \in Filas : notna(df.cols[c][i])}

\* C1: whatever the table, the call returns a table in which no target column
\* has a missing value.
C1_SinFaltantes ==
    Terminado =>
        /\ Retorno
        /\ \A c \in Objetivos : \A i \in Filas : notna(resultado.tabla.cols[c][i])

\* v is the point at row k of the straight line from (i, a) to (j, b)
EnLaRecta(v, i, a, j, b, k) ==
    v.d # 0 /\ v.n * a.d * b.d * (j - i) = v.d * (a.n * b.d * (j - k) + b.n * a.d * (k - i))

\* C2: on a table with ascending keys (duplicates allowed), a target column
\* with an anchor gets 0 at the missing rows before the anchor, keeps its
\* values, and gets the linear interpolation of its two nearest valid
\* neighbours at every missing row between two valid rows.
C2_CeroAntesLinealDespues ==
    (Terminado /\ Ascendente(df.indice)) =>
        \A c \in Objetivos : Validas(c) # {} =>
            /\ Retorno
            /\ \A k \in Filas :
                LET r == resultado.tabla.cols[c][k]
                    antes == {i \in Validas(c) : i < k}
                    despues == {j \in Validas(c) : j > k}
                IN  /\ (k \in Validas(c)) => r = df.cols[c][k]
                    /\ (k \notin Validas(c) /\ antes = {}) => r = Cero
                    /\ (k \notin Validas(c) /\ antes # {} /\ despues # {}) =>
                          EnLaRecta(r, Max(antes), df.cols[c][Max(antes)],
                                    Min(despues), df.cols[c][Min(despues)], k)

\* C3: a returned table has the row labels of the input, in the same order,
\* the same columns, and every column that is no target holds the input's values.
C3_NoObjetivoIntacto ==
    Retorno =>
        /\ resultado.tabla.indice = df.indice
        /\ resultado.tabla.nombre_indice = df.nombre_indice
        /\ DOMAIN resultado.tabla.cols = DOMAIN df.cols
        /\ \A k \in DOMAIN df.cols \ Objetivos : resultado.tabla.cols[k] = df.cols[k]

C3_Testigo ==
    /\ Retorno
    /\ columnas_consumo = <<"X">>
    /\ resultado.tabla.cols["X"] # df.cols["X"]
    /\ \E i \in Filas : isna(df.cols["Y"][i])
    /\ \E i \in Filas : notna(df.cols["Y"][i])

\* C7: when the only target column is missing at every row, the call returns
\* a table in which that column is 0 at every row.
C7_TodoFaltanteTodoCero ==
    \A c \in DOMAIN df.cols :
        (Terminado /\ columnas_consumo = <<c>> /\ Validas(c) = {}) =>
            /\ Retorno
            /\ \A i \in Filas : resultado.tabla.cols[c][i] = Cero

C7_Testigo ==
    /\ Retorno
    /\ columnas_consumo = <<"X">>
    /\ Len(df.indice) = MaxLen
    /\ ~Ascendente(df.indice)
    /\ \A i \in Filas : isna(df.cols["X"][i]) /\ resultado.tabla.cols["X"][i] = Cero

\* C8: on a table with distinct ascending keys, every missing row after the
\* last valid row of a target column gets that last valid value.
C8_ColaConUltimoValor ==
    (Terminado /\ AscendenteDistinto(df.indice)) =>
        \A c \in Objetivos : Validas(c) # {} =>
            /\ Retorno
            /\ \A k \in Filas : k > Max(Validas(c)) =>
                  resultado.tabla.cols[c][k] = df.cols[c][Max(Validas(c))]

C8_Testigo ==
    /\ Retorno
    /\ AscendenteDistinto(df.indice)
    /\ "X" \in Objetivos
    /\ df.cols["X"] = <<NaN, Num(5), NaN>>
    /\ resultado.tabla.cols["X"] = <<Cero, Num(5), Num(5)>>

Permutaciones(seq) ==
    {p \in [DOMAIN seq -> Rango(seq)] : \A c \in Rango(seq) : \E i \in DOMAIN seq : p[i] = c}

\* the table with every column but c emptied
Sola(tabla, c) ==
    [tabla EXCEPT !.cols = [k \in DOMAIN @ |->
        IF k = c THEN @[k] ELSE [i \in DOMAIN @[k] |-> NaN]]]

\* C10: whatever the interleaving of the per-column steps, the call ends as
\* the loop does for every order of the target list, and a target column of
\* the returned table is what the call gives for that column alone on a table
\* whose other columns are empty.
C10_ColumnasIndependientes ==
    Terminado =>
        /\ \A p \in Permutaciones(columnas_consumo) :
              imputar_datos_consumo(df, p) = resultado
        /\ Retorno => \A c \in Objetivos :
              imputar_datos_consumo(Sola(df, c), <<c>>) =
                  Ok(Sola([df EXCEPT !.cols[c] = resultado.tabla.cols[c]], c))

C10_Testigo ==
    /\ Retorno
    /\ Len(columnas_consumo) = 2
    /\ df.cols["X"] = <<Num(5), NaN, Num(10)>>
    /\ resultado.tabla.cols["X"] = <<Num(5), [n |-> 15, d |-> 2], Num(10)>>
    /\ df.cols["Y"] = <<NaN, Num(4), NaN>>
    /\ resultado.tabla.cols["Y"] = <<Cero, Num(4), Num(4)>>

---------------------------------------------------------------------------
(* crear_indice_fecha, lines 37-74 *)

Bisiesto(y) == (y % 4 = 0 /\ y % 100 # 0) \/ y % 400 = 0

DiasDelMes(y, m) ==
    IF m = 2 THEN (IF Bisiesto(y) THEN 29 ELSE 28)
    ELSE IF m \in {4, 6, 9, 11} THEN 30 ELSE 31

\* pandas _assemble_from_unit_mappings: year * 10000 + month * 100 + day
ensamblar(y, m, dd) == y * 10000 + m * 100 + dd

\* to_datetime(values, format="%Y%m%d") on one assembled number: its digits
\* are read back as year, month and day; None stands for a value that is no
\* date within the bounds of Timestamp
parse_Ymd(v) ==
    LET y == v \div 10000
        m == (v \div 100) % 100
        dd == v % 100
    IN  IF y \in 1678..2261 /\ m \in 1..12 /\ dd \in 1..DiasDelMes(y, m)
        THEN Timestamp(y, m, dd) ELSE None

\* line 66-68: pd.to_datetime(df[['Year', 'Month', 'Day']]) (the format
\* argument is not used for a frame); <<None>> stands for the ValueError
\* "cannot assemble the datetimes"
to_datetime(years, months, days) ==
    LET fechas == [i \in DOMAIN years |->
                      parse_Ymd(ensamblar(years[i].n, months[i].n, days[i].n))]
    IN  IF \E i \in DOMAIN fechas : fechas[i] = None THEN <<None>> ELSE fechas

Quitar(cols, nombres) == [k \in DOMAIN cols \ nombres |-> cols[k]]

\* lines 64-72, with the Day column as given
reindexar(tabla, days) ==
    LET fechas == to_datetime(tabla.cols["Year"], tabla.cols["Month"], days)
    IN  IF fechas = <<None>> THEN ValueError
        ELSE Ok([nombre_indice |-> "datetime",
                 indice |-> fechas,
                 cols |-> Quitar(tabla.cols, {"Year", "Month", "Day", "datetime"})])

Unos(tabla) == [i \in DOMAIN tabla.indice |-> Num(1)]

\* both guards left out: the columns are read unconditionally
crear_indice_fecha_sin_guardas(tabla) ==
    IF "Year" \in DOMAIN tabla.cols /\ "Month" \in DOMAIN tabla.cols
    THEN reindexar(tabla, Unos(tabla))
    ELSE KeyError

\* the guard of line 60 left out
crear_indice_fecha_sin_datetime(tabla) ==
    IF "Year" \in DOMAIN tabla.cols /\ "Month" \in DOMAIN tabla.cols
    THEN reindexar(tabla, Unos(tabla))
    ELSE Ok(tabla)

\* line 64 guarded by "if 'Day' not in columns"
crear_indice_fecha_day_existente(tabla) ==
    IF "datetime" \notin DOMAIN tabla.cols
       /\ "Year" \in DOMAIN tabla.cols /\ "Month" \in DOMAIN tabla.cols
    THEN reindexar(tabla, IF "Day" \in DOMAIN tabla.cols THEN tabla.cols["Day"]
                          ELSE Unos(tabla))
    ELSE Ok(tabla)

\* lines 57-74
crear_indice_fecha(tabla) ==
    IF "datetime" \notin DOMAIN tabla.cols
       /\ "Year" \in DOMAIN tabla.cols /\ "Month" \in DOMAIN tabla.cols
    THEN reindexar(tabla, Unos(tabla))
    ELSE Ok(tabla)

IndicesFecha(n) ==
    {[nombre |-> "", valores |-> RangeIndex(n)],
     [nombre |-> "datetime", valores |-> [i \in 1..n |-> Timestamp(2000, i, 1)]]}

ColumnaFija(k, n) ==
    IF k = "Day" THEN [i \in 1..n |-> Num(15)]
    ELSE IF k = "datetime" THEN [i \in 1..n |-> Timestamp(1999, 12, 31)]
    ELSE [i \in 1..n |-> IF i = 1 THEN NaN ELSE Num(7)]

TablasFecha ==
    UNION {
        {[nombre_indice |-> ix.nombre, indice |-> ix.valores,
          cols |-> [k \in S \cup {"V"} |->
                       IF k = "Year" THEN [i \in 1..n |-> Num(ys[i])]
                       ELSE IF k = "Month" THEN [i \in 1..n |-> Num(ms[i])]
                       ELSE ColumnaFija(k, n)]] :
            ix \in IndicesFecha(n), S \in SUBSET {"Year", "Month", "Day", "datetime"},
            ys \in [1..n -> Years], ms \in [1..n -> Months]}
        : n \in 1..MaxFilas}

InitFecha ==
    /\ df_fecha \in TablasFecha
    /\ una_vez = Running
    /\ dos_veces = Running
    /\ paso = "inicio"
    /\ df = SinFecha
    /\ columnas_consumo = <<>>
    /\ df_imputado = SinFecha
    /\ primer_indice_valido = <<>>
    /\ pc = <<>>
    /\ resultado = Running

\* index_by_date(t)
PrimeraVez ==
    /\ paso = "inicio"
    /\ una_vez' = crear_indice_fecha(df_fecha)
    /\ paso' = "una"
    /\ UNCHANGED <<df_fecha, dos_veces>>
    /\ UNCHANGED varsImputar

\* index_by_date(index_by_date(t)); an error of the inner call propagates
SegundaVez ==
    /\ paso = "una"
    /\ dos_veces' = IF una_vez.kind = "table" THEN crear_indice_fecha(una_vez.tabla)
                    ELSE una_vez
    /\ paso' = "dos"
    /\ UNCHANGED <<df_fecha, una_vez>>
    /\ UNCHANGED varsImputar

NextFecha == PrimeraVez \/ SegundaVez

SpecFecha == InitFecha /\ [][NextFecha]_vars

---------------------------------------------------------------------------
(* Properties of crear_indice_fecha *)

Columnas == DOMAIN df_fecha.cols
TieneYearMonth == "Year" \in Columnas /\ "Month" \in Columnas
SinClaveDatetime == "datetime" \notin Columnas /\ df_fecha.nombre_indice # "datetime"
FilasFecha == DOMAIN df_fecha.indice
MesValido(i) == df_fecha.cols["Month"][i].n \in 1..12

\* C4: index_by_date(index_by_date(t)) = index_by_date(t).
C4_Idempotente == paso = "dos" => dos_veces = una_vez

C4_Testigo ==
    /\ paso = "dos"
    /\ una_vez.kind = "table"
    /\ una_vez.tabla.nombre_indice = "datetime"
    /\ df_fecha.nombre_indice = ""
    /\ TieneYearMonth
    /\ "Year" \notin DOMAIN una_vez.tabla.cols
    /\ dos_veces = una_vez

\* C5 as stated: with a datetime key, as a column or as the index, the input
\* comes back equal, Year and Month present or not.
C5_ConClaveSinCambios ==
    (paso # "inicio" /\ ("datetime" \in Columnas \/ df_fecha.nombre_indice = "datetime")) =>
        una_vez = Ok(df_fecha)

\* C5 amended: with a datetime column, or with a datetime index and no Year or
\* no Month column, the input comes back equal.
C5_ColumnaDatetimeSinCambios ==
    (paso # "inicio"
        /\ \/ "datetime" \in Columnas
           \/ (df_fecha.nombre_indice = "datetime" /\ ~TieneYearMonth)) =>
        una_vez = Ok(df_fecha)

C5_Testigo ==
    /\ paso # "inicio"
    /\ "datetime" \in Columnas
    /\ TieneYearMonth
    /\ \A i \in FilasFecha : MesValido(i)
    /\ una_vez = Ok(df_fecha)

\* C6: without a datetime key and with valid Year and Month, row i of the
\* result is labelled with the first day of (Year_i, Month_i), rows keep their
\* number and order, Year, Month and Day are gone and the other columns are
\* as in the input.
C6_PrimerDiaDelMes ==
    (paso # "inicio" /\ SinClaveDatetime /\ TieneYearMonth
        /\ \A i \in FilasFecha : MesValido(i)) =>
        /\ una_vez.kind = "table"
        /\ una_vez.tabla.nombre_indice = "datetime"
        /\ DOMAIN una_vez.tabla.indice = FilasFecha
        /\ \A i \in FilasFecha :
              una_vez.tabla.indice[i] =
                  Timestamp(df_fecha.cols["Year"][i].n, df_fecha.cols["Month"][i].n, 1)
        /\ DOMAIN una_vez.tabla.cols = Columnas \ {"Year", "Month", "Day"}
        /\ \A k \in Columnas \ {"Year", "Month", "Day"} :
              una_vez.tabla.cols[k] = df_fecha.cols[k]

C6_Testigo ==
    /\ paso # "inicio"
    /\ SinClaveDatetime
    /\ TieneYearMonth
    /\ "Day" \in Columnas
    /\ df_fecha.cols["Year"] = <<Num(2020), Num(2020)>>
    /\ df_fecha.cols["Month"] = <<Num(3), Num(3)>>
    /\ una_vez.kind = "table"
    /\ una_vez.tabla.indice = <<Timestamp(2020, 3, 1), Timestamp(2020, 3, 1)>>

\* C9: without a datetime key, a row whose Month is no month of the calendar
\* makes the call fail.
C9_MesInvalidoFalla ==
    (paso # "inicio" /\ SinClaveDatetime /\ TieneYearMonth
        /\ \E i \in FilasFecha : ~MesValido(i)) =>
        una_vez.kind = "ValueError"

====
